---- MODULE Spec2Model ----
(***************************************************************************)
(* Gate Automation Cloud Server (src/main.py): the plate matcher, the      *)
(* per-customer cooldown, the /detect handler and the /add_customer        *)
(* handler, as a state machine.                                            *)
(*                                                                         *)
(* A plate text is a sequence of one-character strings.  time.time() is a  *)
(* discrete clock `now` that the Tick action advances.  A /detect request  *)
(* is a thread of the (threaded) Flask server; it yields to other threads  *)
(* at its two blocking network calls, so its steps are: begin, recognize,  *)
(* one scan step per candidate, and the return of the webhook post.        *)
(***************************************************************************)
EXTENDS Integers, Sequences, FiniteSets, TLC

\* Python's None.
None == "None"

(***************************************************************************)
(* Bounds of the model.                                                    *)
(***************************************************************************)
\* Largest value of the clock.
MaxTime == 3
\* Largest number of candidates the recognition service reports for one image.
MaxCands == 2
\* Largest cooldown_seconds a customer record carries.
MaxCooldown == 1
\* Largest number of requests (/detect and /add_customer) over the process lifetime.
MaxCalls == 2

(***************************************************************************)
(* Characters and plate texts.                                             *)
(***************************************************************************)
LowerLetters ==
    << "a", "b", "c", "d", "e", "f", "g", "h", "i", "j", "k", "l", "m",
       "n", "o", "p", "q", "r", "s", "t", "u", "v", "w", "x", "y", "z" >>

UpperLetters ==
    << "A", "B", "C", "D", "E", "F", "G", "H", "I", "J", "K", "L", "M",
       "N", "O", "P", "Q", "R", "S", "T", "U", "V", "W", "X", "Y", "Z" >>

Digits == { "0", "1", "2", "3", "4", "5", "6", "7", "8", "9" }

\* The character class [A-Z0-9] of the regular expression in clean_plate.
PlateChars == { UpperLetters[i] : i \in 1..26 } \cup Digits

\* str.upper() on one character (ASCII letters; every other character is kept).
upper(c) ==
    IF \E i \in 1..26 : LowerLetters[i] = c
    THEN UpperLetters[CHOOSE i \in 1..26 : LowerLetters[i] = c]
    ELSE c

\* clean_plate that upper-cases the text and deletes nothing.
clean_plate_UpperOnly(text) ==
    SelectSeq([i \in 1..Len(text) |-> upper(text[i])], LAMBDA c : TRUE)

\* clean_plate: upper-case the text, then delete every character outside [A-Z0-9].
clean_plate(text) ==
    SelectSeq([i \in 1..Len(text) |-> upper(text[i])], LAMBDA c : c \in PlateChars)

\* Python's `s in t` on strings: s is a contiguous substring of t.
IsSubstring(s, t) ==
    \E i \in 0..(Len(t) - Len(s)) : SubSeq(t, i + 1, i + Len(s)) = s

RECURSIVE GCD(_, _)
GCD(a, b) == IF b = 0 THEN a ELSE GCD(b, a % b)

\* A score is an exact rational <<numerator, denominator>> in lowest terms:
\* the integer scores 100, 80 and 0 are <<100, 1>>, <<80, 1>>, <<0, 1>>, and the
\* float (matches / max(len)) * 100 is <<matches * 100, max(len)>> reduced.
Score(n, d) == << n \div GCD(n, d), d \div GCD(n, d) >>

\* a < b on scores.
ScoreLess(a, b) == a[1] * b[2] < b[1] * a[2]

Max(a, b) == IF a >= b THEN a ELSE b
Min(a, b) == IF a <= b THEN a ELSE b

\* sum(1 for a, b in zip(detected, authorized) if a == b)
PositionalMatches(detected, authorized) ==
    Cardinality({ i \in 1..Min(Len(detected), Len(authorized)) : detected[i] = authorized[i] })

\* fuzzy_match with the similarity rule tried before the two containment rules.
fuzzy_match_SimilarityFirst(detected_raw, authorized_raw) ==
    LET detected   == clean_plate(detected_raw)
        authorized == clean_plate(authorized_raw)
        matches    == PositionalMatches(detected, authorized)
        longest    == Max(Len(detected), Len(authorized))
    IN  IF detected = authorized
        THEN << TRUE, Score(100, 1) >>
        ELSE IF /\ Len(detected) > 0
                /\ Len(authorized) > 0
                /\ matches * 100 >= 70 * longest
        THEN << TRUE, Score(matches * 100, longest) >>
        ELSE IF Len(detected) >= 6 /\ IsSubstring(detected, authorized)
        THEN << TRUE, Score(80, 1) >>
        ELSE IF Len(authorized) >= 6 /\ IsSubstring(authorized, detected)
        THEN << TRUE, Score(80, 1) >>
        ELSE << FALSE, Score(0, 1) >>

\* fuzzy_match with the similarity threshold at 80 instead of 70.
fuzzy_match_Threshold80(detected_raw, authorized_raw) ==
    LET detected   == clean_plate(detected_raw)
        authorized == clean_plate(authorized_raw)
        matches    == PositionalMatches(detected, authorized)
        longest    == Max(Len(detected), Len(authorized))
    IN  IF detected = authorized
        THEN << TRUE, Score(100, 1) >>
        ELSE IF Len(detected) >= 6 /\ IsSubstring(detected, authorized)
        THEN << TRUE, Score(80, 1) >>
        ELSE IF Len(authorized) >= 6 /\ IsSubstring(authorized, detected)
        THEN << TRUE, Score(80, 1) >>
        ELSE IF /\ Len(detected) > 0
                /\ Len(authorized) > 0
                /\ matches * 100 >= 80 * longest
        THEN << TRUE, Score(matches * 100, longest) >>
        ELSE << FALSE, Score(0, 1) >>

\* fuzzy_match with the exact rule applied to non-empty texts only.
fuzzy_match_NonEmptyExact(detected_raw, authorized_raw) ==
    LET detected   == clean_plate(detected_raw)
        authorized == clean_plate(authorized_raw)
        matches    == PositionalMatches(detected, authorized)
        longest    == Max(Len(detected), Len(authorized))
    IN  IF Len(detected) > 0 /\ detected = authorized
        THEN << TRUE, Score(100, 1) >>
        ELSE IF Len(detected) >= 6 /\ IsSubstring(detected, authorized)
        THEN << TRUE, Score(80, 1) >>
        ELSE IF Len(authorized) >= 6 /\ IsSubstring(authorized, detected)
        THEN << TRUE, Score(80, 1) >>
        ELSE IF /\ Len(detected) > 0
                /\ Len(authorized) > 0
                /\ matches * 100 >= 70 * longest
        THEN << TRUE, Score(matches * 100, longest) >>
        ELSE << FALSE, Score(0, 1) >>

\* fuzzy_match with the partial rule in one direction only: a cleaned authorized
\* text inside the cleaned detected text goes on to the similarity rule.
fuzzy_match_OneWayPartial(detected_raw, authorized_raw) ==
    LET detected   == clean_plate(detected_raw)
        authorized == clean_plate(authorized_raw)
        matches    == PositionalMatches(detected, authorized)
        longest    == Max(Len(detected), Len(authorized))
    IN  IF detected = authorized
        THEN << TRUE, Score(100, 1) >>
        ELSE IF Len(detected) >= 6 /\ IsSubstring(detected, authorized)
        THEN << TRUE, Score(80, 1) >>
        ELSE IF /\ Len(detected) > 0
                /\ Len(authorized) > 0
                /\ matches * 100 >= 70 * longest
        THEN << TRUE, Score(matches * 100, longest) >>
        ELSE << FALSE, Score(0, 1) >>

\* fuzzy_match: <<is_match, score>>.  The float comparison similarity >= 70 is
\* the exact comparison matches * 100 >= 70 * max(len) for every length up to 11.
fuzzy_match(detected_raw, authorized_raw) ==
    LET detected   == clean_plate(detected_raw)
        authorized == clean_plate(authorized_raw)
        matches    == PositionalMatches(detected, authorized)
        longest    == Max(Len(detected), Len(authorized))
    IN  IF detected = authorized
        THEN << TRUE, Score(100, 1) >>
        ELSE IF Len(detected) >= 6 /\ IsSubstring(detected, authorized)
        THEN << TRUE, Score(80, 1) >>
        ELSE IF Len(authorized) >= 6 /\ IsSubstring(authorized, detected)
        THEN << TRUE, Score(80, 1) >>
        ELSE IF /\ Len(detected) > 0
                /\ Len(authorized) > 0
                /\ matches * 100 >= 70 * longest
        THEN << TRUE, Score(matches * 100, longest) >>
        ELSE << FALSE, Score(0, 1) >>

\* ScanAuthorized with the loop keeping the last matching entry, not the first.
RECURSIVE ScanAuthorized_Last(_, _, _)
ScanAuthorized_Last(authorized_plates, detected_plate, k) ==
    IF k > Len(authorized_plates)
    THEN << FALSE, None, Score(0, 1) >>
    ELSE LET m    == fuzzy_match(detected_plate, authorized_plates[k])
             rest == ScanAuthorized_Last(authorized_plates, detected_plate, k + 1)
         IN  IF rest[1] THEN rest
             ELSE IF m[1] THEN << TRUE, authorized_plates[k], m[2] >>
             ELSE << FALSE, None, Score(0, 1) >>

\* ScanAuthorized returning the detected text in place of the matching entry.
RECURSIVE ScanAuthorized_Detected(_, _, _)
ScanAuthorized_Detected(authorized_plates, detected_plate, k) ==
    IF k > Len(authorized_plates)
    THEN << FALSE, None, Score(0, 1) >>
    ELSE LET m == fuzzy_match(detected_plate, authorized_plates[k])
         IN  IF m[1]
             THEN << TRUE, detected_plate, m[2] >>
             ELSE ScanAuthorized_Detected(authorized_plates, detected_plate, k + 1)

\* The for loop of is_authorized from entry k of the list on.
RECURSIVE ScanAuthorized(_, _, _)
ScanAuthorized(authorized_plates, detected_plate, k) ==
    IF k > Len(authorized_plates)
    THEN << FALSE, None, Score(0, 1) >>
    ELSE LET m == fuzzy_match(detected_plate, authorized_plates[k])
         IN  IF m[1]
             THEN << TRUE, authorized_plates[k], m[2] >>
             ELSE ScanAuthorized(authorized_plates, detected_plate, k + 1)

\* is_authorized on the registry cs: <<is_auth, auth_plate, confidence>>.
is_authorized(cs, customer_id, detected_plate) ==
    IF customer_id \notin DOMAIN cs
    THEN << FALSE, None, Score(0, 1) >>
    ELSE ScanAuthorized(cs[customer_id].authorized_plates, detected_plate, 1)

\* can_open_gate on the registry cs at time t.
can_open_gate(cs, customer_id, t) ==
    IF customer_id \notin DOMAIN cs
    THEN FALSE
    ELSE t > cs[customer_id].cooldown_end

(***************************************************************************)
(* The inputs the model draws from.                                        *)
(***************************************************************************)
P_AB12CD  == << "A", "B", "1", "2", "C", "D" >>
P_ab12cd  == << "a", "b", "-", "1", "2", " ", "c", "d" >>
P_AB12CDX == << "A", "B", "1", "2", "C", "D", "X" >>
P_AB12CX  == << "A", "B", "1", "2", "C", "X" >>
P_ZZZZZZ  == << "Z", "Z", "Z", "Z", "Z", "Z" >>
\* Two texts that clean_plate turns into the empty text.
P_empty   == << >>
P_dashes  == << "-", " " >>

\* The webhook_url of a customer's hub; None is a record without one.
Hub == "http://hub/api/webhook/gate"

\* The threads of the server that serve /detect requests: the server starts one
\* thread per request, so a thread is no more than a slot for a request in flight.
Threads == { "t1", "t2" }

\* The customer ids a request or a provisioning call names; None is a missing one.
CustomerIds == { "A", "B" }

\* authorized_plates lists of the customer records at startup.
AllowLists == { << P_AB12CD >> }

\* authorized_plates lists of the /add_customer requests.
AddLists == { << P_AB12CDX, P_AB12CD >> }

\* One result of the recognition service: {'plate': ..., 'score': ...}.
Candidates ==
    { [plate |-> P_ZZZZZZ, score |-> 90],
      [plate |-> P_ab12cd, score |-> 85] }

\* The 'results' lists of the recognition service, of at most MaxCands entries.
ResultLists == UNION { [1..n -> Candidates] : n \in 0..MaxCands }

\* What the call of the recognition service ends with: a requests.Timeout, another
\* exception, a response whose status is not 201, or a 201 with its results.
ApiOutcomes ==
    { [kind |-> k, results |-> << >>] : k \in { "timeout", "exception", "500" } }
        \cup { [kind |-> "201", results |-> rs] : rs \in ResultLists }

\* What requests.post to the hub ends with: a status code, or an exception
\* (a transport error or the 5 s timeout).
WebhookOutcomes == { "200", "500", "exception" }

\* response.status_code in [200, 201, 204]
SuccessCodes == { "200", "201", "204" }

\* PLATE_RECOGNIZER_TOKEN: the model is of a server whose token is configured.
PLATE_RECOGNIZER_TOKEN == "token"

(***************************************************************************)
(* State.                                                                  *)
(***************************************************************************)
VARIABLES
    customers,      \* the registry: customer id -> record
    now,            \* time.time()
    reqs,           \* thread -> the /detect request it serves (locals and position)
    started,        \* number of /detect requests received
    adds,           \* number of /add_customer requests received
    add_status,     \* status of the last /add_customer response (0: none yet)
    last_trigger,   \* history: customer id -> time of its last successful trigger (-1: none)
    call,           \* arguments of a direct call of a pure function (None: no call)
    ret             \* what that call returned (None: not returned)

vars == << customers, now, reqs, started, adds, add_status, last_trigger, call, ret >>

\* A thread that serves no request.  The fields from `posts` on are history of the
\* request: calls of requests.post to the hub, writes of cooldown_end, calls of
\* is_authorized and of can_open_gate, trigger_gate calls that returned False, the
\* request's inputs as they were when it arrived, and the time of its trigger.
IdleReq ==
    [ pc                |-> "idle",
      customer_id       |-> None,
      results           |-> << >>,
      idx               |-> 0,
      detected_plates   |-> << >>,
      gate_triggered    |-> FALSE,
      matched_plate     |-> None,
      auth_plate        |-> None,
      status            |-> 0,
      posts             |-> 0,
      writes            |-> 0,
      resolves          |-> 0,
      checks            |-> 0,
      fails             |-> 0,
      known_at_start    |-> FALSE,
      eligible_at_start |-> FALSE,
      peers             |-> {},
      triggered_at      |-> 0 ]

\* A customer record as add_customer and the default of init_customers build it.
NewCustomer(webhook_url, authorized_plates, cooldown_seconds, created_at) ==
    [ webhook_url       |-> webhook_url,
      authorized_plates |-> authorized_plates,
      cooldown_seconds  |-> cooldown_seconds,
      cooldown_end      |-> 0,
      created_at        |-> created_at ]

\* init_customers: the registry after startup, from CUSTOMERS_CONFIG (which may
\* leave a record without a webhook_url) or the default test customer.
init_customers ==
    { [c \in { "A" } |-> [NewCustomer(Hub, ap, cs, 0) EXCEPT !.webhook_url = w]] :
        w \in { Hub, None }, ap \in AllowLists, cs \in 0..MaxCooldown }

PipelineInit ==
    /\ now = 1
    /\ reqs = [r \in Threads |-> IdleReq]
    /\ started = 0
    /\ adds = 0
    /\ add_status = 0
    /\ last_trigger = [c \in CustomerIds |-> -1]

Init ==
    /\ customers \in init_customers
    /\ PipelineInit
    /\ call = None
    /\ ret = None

(***************************************************************************)
(* /detect                                                                 *)
(***************************************************************************)
\* detect_plate_validate without the check of the customer id against the registry.
detect_plate_validate_NoLookup(cs, image, customer_id) ==
    IF image = None THEN 400
    ELSE IF customer_id = None THEN 400
    ELSE IF PLATE_RECOGNIZER_TOKEN = "" THEN 500
    ELSE IF image = "bad" THEN 400
    ELSE 0

\* The request's checks before the recognition call: the status it is rejected
\* with, or 0 when it passes.
detect_plate_validate(cs, image, customer_id) ==
    IF image = None THEN 400
    ELSE IF customer_id = None THEN 400
    ELSE IF customer_id \notin DOMAIN cs THEN 404
    ELSE IF PLATE_RECOGNIZER_TOKEN = "" THEN 500
    ELSE IF image = "bad" THEN 400
    ELSE 0

\* append_detected with the entry put in front of the list.
append_detected_Front(detected_plates, result) ==
    << [plate |-> result.plate, confidence |-> result.score] >> \o detected_plates

\* detected_plates.append({'plate': plate, 'confidence': confidence})
append_detected(detected_plates, result) ==
    Append(detected_plates, [plate |-> result.plate, confidence |-> result.score])

\* should_trigger without the test of gate_triggered.
should_trigger_NoLatch(is_auth, gate_open, gate_triggered) ==
    is_auth /\ gate_open

\* The condition of the if that guards trigger_gate.
should_trigger(is_auth, gate_open, gate_triggered) ==
    is_auth /\ gate_open /\ ~gate_triggered

\* trigger_gate_posts without the test of webhook_url.
trigger_gate_posts_NoUrlCheck(cs, customer_id) ==
    customer_id \in DOMAIN cs

\* trigger_gate up to requests.post: FALSE when it returns False before posting.
trigger_gate_posts(cs, customer_id) ==
    IF customer_id \notin DOMAIN cs THEN FALSE
    ELSE cs[customer_id].webhook_url # None

\* trigger_gate_response storing a rebuilt record, whose allow-list is empty.
trigger_gate_response_Rebuilt(cs, customer_id, outcome, t) ==
    IF outcome = "exception"
    THEN [ customers |-> cs, success |-> FALSE ]
    ELSE [ customers |->
               [cs EXCEPT ![customer_id] =
                   [NewCustomer(@.webhook_url, << >>, @.cooldown_seconds, @.created_at)
                       EXCEPT !.cooldown_end = t + cs[customer_id].cooldown_seconds]],
           success |-> outcome \in SuccessCodes ]

\* trigger_gate_response with one cooldown for the whole registry.
trigger_gate_response_Global(cs, customer_id, outcome, t) ==
    IF outcome = "exception"
    THEN [ customers |-> cs, success |-> FALSE ]
    ELSE [ customers |->
               [c \in DOMAIN cs |->
                   [cs[c] EXCEPT !.cooldown_end = t + cs[customer_id].cooldown_seconds]],
           success |-> outcome \in SuccessCodes ]

\* trigger_gate from the end of requests.post on, at time t: the registry it
\* leaves and the value it returns.
trigger_gate_response(cs, customer_id, outcome, t) ==
    IF outcome = "exception"
    THEN [ customers |-> cs, success |-> FALSE ]
    ELSE [ customers |->
               [cs EXCEPT ![customer_id].cooldown_end =
                              t + cs[customer_id].cooldown_seconds],
           success |-> outcome \in SuccessCodes ]

\* The end of one iteration of the for loop over the results: the next result,
\* or the response when there is none.
next_result(q) ==
    IF q.idx >= Len(q.results)
    THEN [q EXCEPT !.pc = "done", !.status = 200, !.idx = Len(q.results) + 1]
    ELSE [q EXCEPT !.pc = "scan", !.idx = q.idx + 1]

\* A request arrives at thread r: get_json and the checks up to the token's.
detect_plate_begin(r, image, customer_id) ==
    /\ reqs[r].pc = "idle"
    /\ r = "t2" => reqs["t1"].pc # "idle"
    /\ started + adds < MaxCalls
    /\ started' = started + 1
    /\ LET status == detect_plate_validate(customers, image, customer_id)
           q == [IdleReq EXCEPT
                   !.customer_id = customer_id,
                   !.known_at_start = customer_id \in DOMAIN customers,
                   !.eligible_at_start = can_open_gate(customers, customer_id, now),
                   !.peers = { o \in Threads : reqs[o].pc \notin { "idle", "done" } }]
       IN  reqs' = [reqs EXCEPT ![r] =
                       IF status # 0
                       THEN [q EXCEPT !.pc = "done", !.status = status]
                       ELSE [q EXCEPT !.pc = "recognize"]]
    /\ UNCHANGED << customers, now, adds, add_status, last_trigger, call, ret >>

\* The call of the recognition service returns to thread r.
detect_plate_recognize(r, api) ==
    /\ reqs[r].pc = "recognize"
    /\ reqs' = [reqs EXCEPT ![r] =
                   IF api.kind = "timeout" THEN [@ EXCEPT !.pc = "done", !.status = 504]
                   ELSE IF api.kind # "201" THEN [@ EXCEPT !.pc = "done", !.status = 500]
                   ELSE next_result([@ EXCEPT !.results = api.results, !.idx = 0])]
    /\ UNCHANGED << customers, now, started, adds, add_status, last_trigger, call, ret >>

\* One iteration of the for loop, up to the call of requests.post in trigger_gate.
detect_plate_scan(r) ==
    /\ reqs[r].pc = "scan"
    /\ LET q         == reqs[r]
           result    == q.results[q.idx]
           auth      == is_authorized(customers, q.customer_id, result.plate)
           gate_open == can_open_gate(customers, q.customer_id, now)
           q1        == [q EXCEPT
                           !.detected_plates = append_detected(@, result),
                           !.resolves = @ + 1,
                           !.checks = IF auth[1] THEN @ + 1 ELSE @]
       IN  reqs' = [reqs EXCEPT ![r] =
                       IF should_trigger(auth[1], gate_open, q.gate_triggered)
                       THEN IF trigger_gate_posts(customers, q.customer_id)
                            THEN [q1 EXCEPT !.pc = "post",
                                            !.auth_plate = auth[2],
                                            !.posts = @ + 1]
                            ELSE next_result([q1 EXCEPT !.fails = @ + 1])
                       ELSE next_result(q1)]
    /\ UNCHANGED << customers, now, started, adds, add_status, last_trigger, call, ret >>

\* requests.post to the hub returns to thread r: the rest of trigger_gate, and the
\* rest of the iteration.
detect_plate_triggered(r, outcome) ==
    /\ reqs[r].pc = "post"
    /\ LET q  == reqs[r]
           tg == trigger_gate_response(customers, q.customer_id, outcome, now)
           q1 == [q EXCEPT
                    !.writes = IF outcome = "exception" THEN @ ELSE @ + 1,
                    !.fails = IF tg.success THEN @ ELSE @ + 1,
                    !.auth_plate = None]
       IN  /\ customers' = tg.customers
           /\ reqs' = [reqs EXCEPT ![r] =
                          IF tg.success
                          THEN next_result([q1 EXCEPT !.gate_triggered = TRUE,
                                                      !.matched_plate = q.auth_plate,
                                                      !.triggered_at = now])
                          ELSE next_result(q1)]
           /\ last_trigger' = IF tg.success
                              THEN [last_trigger EXCEPT ![q.customer_id] = now]
                              ELSE last_trigger
    /\ UNCHANGED << now, started, adds, add_status, call, ret >>

\* The response of thread r's request is sent; the thread is free again.
detect_plate_respond(r) ==
    /\ reqs[r].pc = "done"
    /\ reqs' = [reqs EXCEPT ![r] = IdleReq]
    /\ UNCHANGED << customers, now, started, adds, add_status, last_trigger, call, ret >>

(***************************************************************************)
(* /add_customer                                                           *)
(***************************************************************************)
add_customer(customer_id, webhook_url, authorized_plates, cooldown_seconds) ==
    /\ started + adds < MaxCalls
    /\ adds' = adds + 1
    /\ IF customer_id = None \/ webhook_url = None
       THEN /\ add_status' = 400
            /\ UNCHANGED << customers, last_trigger >>
       ELSE /\ add_status' = 200
            /\ customers' =
                   [c \in DOMAIN customers \cup { customer_id } |->
                       IF c = customer_id
                       THEN NewCustomer(webhook_url, authorized_plates, cooldown_seconds, now)
                       ELSE customers[c]]
            /\ last_trigger' = [last_trigger EXCEPT ![customer_id] = -1]
    /\ UNCHANGED << now, reqs, started, call, ret >>

\* time.time() advances.
Tick ==
    /\ now < MaxTime
    /\ now' = now + 1
    /\ UNCHANGED << customers, reqs, started, adds, add_status, last_trigger, call, ret >>

Next ==
    \/ Tick
    \/ \E r \in Threads, image \in { None, "bad", "ok" }, c \in CustomerIds \cup { None } :
           detect_plate_begin(r, image, c)
    \/ \E r \in Threads, api \in ApiOutcomes : detect_plate_recognize(r, api)
    \/ \E r \in Threads : detect_plate_scan(r)
    \/ \E r \in Threads, outcome \in WebhookOutcomes : detect_plate_triggered(r, outcome)
    \/ \E r \in Threads : detect_plate_respond(r)
    \/ \E c \in CustomerIds \cup { None }, w \in { Hub, None },
          ap \in AddLists, cs \in 0..MaxCooldown :
           add_customer(c, w, ap, cs)

\* The server with its threads interleaved.
Spec == Init /\ [][Next]_vars

(***************************************************************************)
(* The server handling one request at a time: a /detect request or an      *)
(* /add_customer request arrives only when no /detect request is in flight.*)
(***************************************************************************)
AllIdle == \A r \in Threads : reqs[r].pc = "idle"

seq_detect_plate_begin(r, image, customer_id) ==
    AllIdle /\ detect_plate_begin(r, image, customer_id)

seq_add_customer(customer_id, webhook_url, authorized_plates, cooldown_seconds) ==
    AllIdle /\ add_customer(customer_id, webhook_url, authorized_plates, cooldown_seconds)

NextSeq ==
    \/ Tick
    \/ \E r \in Threads, image \in { None, "bad", "ok" }, c \in CustomerIds \cup { None } :
           seq_detect_plate_begin(r, image, c)
    \/ \E r \in Threads, api \in ApiOutcomes : detect_plate_recognize(r, api)
    \/ \E r \in Threads : detect_plate_scan(r)
    \/ \E r \in Threads, outcome \in WebhookOutcomes : detect_plate_triggered(r, outcome)
    \/ \E r \in Threads : detect_plate_respond(r)
    \/ \E c \in CustomerIds \cup { None }, w \in { Hub, None },
          ap \in AddLists, cs \in 0..MaxCooldown :
           seq_add_customer(c, w, ap, cs)

SpecSeq == Init /\ [][NextSeq]_vars

(***************************************************************************)
(* is_authorized called directly, on a registry and arguments drawn from   *)
(* bounded sets.                                                           *)
(***************************************************************************)
\* Largest number of entries of an authorized_plates list.
MaxPlates == 2

Plates == { P_AB12CD, P_ab12cd, P_AB12CDX, P_AB12CX, P_ZZZZZZ, P_empty, P_dashes }

PlateLists == UNION { [1..n -> Plates] : n \in 0..MaxPlates }

InitAuth ==
    /\ customers \in { [c \in { "A" } |-> NewCustomer(Hub, ap, 0, 0)] : ap \in PlateLists }
    /\ PipelineInit
    /\ call \in [customer_id : CustomerIds, detected_plate : Plates]
    /\ ret = None

call_is_authorized ==
    /\ ret = None
    /\ ret' = is_authorized(customers, call.customer_id, call.detected_plate)
    /\ UNCHANGED << customers, now, reqs, started, adds, add_status, last_trigger, call >>

NextAuth == call_is_authorized

SpecAuth == InitAuth /\ [][NextAuth]_vars

(***************************************************************************)
(* fuzzy_match called directly, on two texts drawn from a bounded set.      *)
(***************************************************************************)
\* Largest length of a text over MatchLetters.
MaxLen == 7

P_AB12CD1    == << "A", "B", "1", "2", "C", "D", "1" >>
P_AB12XX1    == << "A", "B", "1", "2", "X", "X", "1" >>
P_XXAB12CDYY == << "X", "X", "A", "B", "1", "2", "C", "D", "Y", "Y" >>

MatchLetters == { "A", "B" }

\* Every text over MatchLetters of at most MaxLen characters, and the plates above.
MatchTexts ==
    UNION { [1..n -> MatchLetters] : n \in 0..MaxLen }
        \cup { P_AB12CD, P_ab12cd, P_AB12CDX, P_AB12CX, P_ZZZZZZ,
               P_AB12CD1, P_AB12XX1, P_XXAB12CDYY, P_dashes }

\* The registry of the specifications that call a function directly and never
\* read it.
NoCustomers == [c \in {} |-> None]

InitMatch ==
    /\ customers = NoCustomers
    /\ PipelineInit
    /\ call \in [detected : MatchTexts, authorized : MatchTexts]
    /\ ret = None

call_fuzzy_match ==
    /\ ret = None
    /\ ret' = fuzzy_match(call.detected, call.authorized)
    /\ UNCHANGED << customers, now, reqs, started, adds, add_status, last_trigger, call >>

NextMatch == call_fuzzy_match

SpecMatch == InitMatch /\ [][NextMatch]_vars

(***************************************************************************)
(* clean_plate on its own: one call on a text of at most MaxText characters *)
(* drawn from lower-case and upper-case letters, a digit and two            *)
(* separators.                                                              *)
(***************************************************************************)
MaxText == 3

CleanChars == { "a", "z", "B", "1", "-", " " }

CleanTexts == UNION { [1..n -> CleanChars] : n \in 0..MaxText }

InitClean ==
    /\ customers = NoCustomers
    /\ PipelineInit
    /\ call \in [text : CleanTexts]
    /\ ret = None

call_clean_plate ==
    /\ ret = None
    /\ ret' = clean_plate(call.text)
    /\ UNCHANGED <<customers, now, reqs, started, adds, add_status, last_trigger, call>>

NextClean == call_clean_plate

SpecClean == InitClean /\ [][NextClean]_vars

(***************************************************************************)
(* Properties.                                                             *)
(***************************************************************************)
\* The entries of `plates` that fuzzy_match matches against `detected`.
Hits(plates, detected) ==
    { k \in 1..Len(plates) : fuzzy_match(detected, plates[k])[1] }

\* The least element of a non-empty set of numbers.
Least(S) == CHOOSE k \in S : \A j \in S : k <= j

\* The results of request q that some entry of `plates` matches.
AuthorizedResults(q, plates) ==
    { i \in 1..Len(q.results) : Hits(plates, q.results[i].plate) # {} }

\* C1: a step in which a trigger attempt of a request fails (trigger_gate
\* returns False) leaves the cooldown_end of the request's customer as it was.
C1_FailedTriggerKeepsCooldown ==
    [][\A r \in Threads :
          (/\ reqs[r].pc \in { "scan", "post" }
           /\ reqs'[r].fails = reqs[r].fails + 1)
          => customers'[reqs[r].customer_id].cooldown_end
                 = customers[reqs[r].customer_id].cooldown_end]_vars

\* C2: a request calls requests.post to the hub at most once.
C2_OnePostPerRequest ==
    \A r \in Threads : reqs[r].posts <= 1

\* C3: a request writes its customer's cooldown_end at most once.
C3_OneCooldownWritePerRequest ==
    \A r \in Threads : reqs[r].writes <= 1

\* C4: of two requests for the same customer that run concurrently, both arrived
\* with the cooldown expired, with cooldown_seconds > 0 and no /add_customer call,
\* at most one triggers the gate within the cooldown of the other's trigger.
C4_ConcurrentRequestsTriggerOnce ==
    \A r1, r2 \in Threads :
        (/\ r1 # r2
         /\ adds = 0
         /\ r1 \in reqs[r2].peers
         /\ reqs[r1].customer_id = reqs[r2].customer_id
         /\ reqs[r1].eligible_at_start
         /\ reqs[r2].eligible_at_start
         /\ customers[reqs[r1].customer_id].cooldown_seconds > 0
         /\ reqs[r1].gate_triggered
         /\ reqs[r2].gate_triggered)
        => LET c  == customers[reqs[r1].customer_id].cooldown_seconds
               t1 == reqs[r1].triggered_at
               t2 == reqs[r2].triggered_at
           IN  t1 > t2 + c \/ t2 > t1 + c

\* C5: no step lowers the cooldown_end of a customer id.
C5_CooldownNeverDecreases ==
    [][\A c \in DOMAIN customers :
          customers'[c].cooldown_end >= customers[c].cooldown_end]_vars

\* C6: with requests handled one after another, a customer whose last successful
\* trigger was recorded at t0 can trigger exactly at the times t > t0 +
\* cooldown_seconds, and a customer whose cooldown_end is 0 can always trigger.
C6_CooldownWindow ==
    \A c \in DOMAIN customers :
        /\ last_trigger[c] >= 0
               => (can_open_gate(customers, c, now)
                       <=> now > last_trigger[c] + customers[c].cooldown_seconds)
        /\ customers[c].cooldown_end = 0 => can_open_gate(customers, c, now)

\* C7: a request that arrived with the cooldown expired, none of whose trigger
\* attempts failed and one of whose results is authorized, answers with
\* gate_triggered true and matched_plate the first entry of the allow-list that
\* matches the first authorized result, and has posted to the hub exactly once.
C7_FirstAuthorizedTriggers ==
    \A r \in Threads :
        LET q == reqs[r] IN
        (/\ q.pc = "done"
         /\ q.status = 200
         /\ q.eligible_at_start
         /\ q.fails = 0
         /\ AuthorizedResults(q, customers[q.customer_id].authorized_plates) # {})
        => LET plates == customers[q.customer_id].authorized_plates
               first  == q.results[Least(AuthorizedResults(q, plates))]
           IN  /\ q.gate_triggered
               /\ q.matched_plate = plates[Least(Hits(plates, first.plate))]
               /\ q.posts = 1

C7_Witness ==
    \E r \in Threads :
        /\ reqs[r].pc = "done"
        /\ reqs[r].status = 200
        /\ reqs[r].eligible_at_start
        /\ reqs[r].fails = 0
        /\ Len(reqs[r].results) = 2
        /\ reqs[r].results[1].plate = P_ZZZZZZ
        /\ reqs[r].results[2].plate = P_ab12cd
        /\ reqs[r].gate_triggered
        /\ reqs[r].posts = 1

\* The {plate, confidence} entries of the first n results of request q.
Reported(q, n) ==
    [i \in 1..n |-> [plate |-> q.results[i].plate, confidence |-> q.results[i].score]]

\* C8: detected_plates holds one {plate, confidence} entry per result handled so
\* far, in the order of the results; in a success response, one per result.
C8_DetectedPlatesMirrorResults ==
    \A r \in Threads :
        LET q == reqs[r] IN
        /\ q.pc = "scan" => q.detected_plates = Reported(q, q.idx - 1)
        /\ q.pc = "post" => q.detected_plates = Reported(q, q.idx)
        /\ (q.pc = "done" /\ q.status = 200)
               => q.detected_plates = Reported(q, Len(q.results))

C8_Witness ==
    \E r \in Threads :
        /\ reqs[r].pc = "done"
        /\ reqs[r].status = 200
        /\ Len(reqs[r].detected_plates) = 2
        /\ reqs[r].results[1].plate = P_ZZZZZZ
        /\ reqs[r].results[2].plate = P_ab12cd
        /\ reqs[r].gate_triggered

\* C9: is_authorized returns the first entry of the customer's authorized_plates
\* that fuzzy_match matches, with that entry's score, and (False, None, 0) when no
\* entry matches or the customer is unknown.
C9_FirstMatchingEntry ==
    ret # None =>
        IF call.customer_id \notin DOMAIN customers
        THEN ret = << FALSE, None, << 0, 1 >> >>
        ELSE LET plates == customers[call.customer_id].authorized_plates
                 hits   == Hits(plates, call.detected_plate)
             IN  IF hits = {}
                 THEN ret = << FALSE, None, << 0, 1 >> >>
                 ELSE ret = << TRUE, plates[Least(hits)],
                               fuzzy_match(call.detected_plate, plates[Least(hits)])[2] >>

\* is_authorized has returned an entry although a later entry scores higher.
C9_Witness ==
    /\ ret # None
    /\ ret[1]
    /\ \E k \in Hits(customers[call.customer_id].authorized_plates, call.detected_plate) :
           ScoreLess(ret[3], fuzzy_match(call.detected_plate,
                                         customers[call.customer_id].authorized_plates[k])[2])

\* C10: a request that names a customer id absent from the registry is answered
\* at once with a client error, and has called neither is_authorized nor
\* can_open_gate nor the hub, and has written no cooldown_end.
C10_UnknownCustomerRejected ==
    \A r \in Threads :
        LET q == reqs[r] IN
        (q.pc # "idle" /\ q.customer_id # None /\ ~q.known_at_start)
        => /\ q.pc = "done"
           /\ q.status \in { 400, 404 }
           /\ q.resolves = 0
           /\ q.checks = 0
           /\ q.posts = 0
           /\ q.writes = 0
           /\ q.detected_plates = << >>

C10_Witness ==
    \E r \in Threads :
        /\ reqs[r].pc = "done"
        /\ reqs[r].customer_id = "B"
        /\ ~reqs[r].known_at_start
        /\ reqs[r].status = 404

\* C11: a request in which a trigger attempt failed is answered with the success
\* status, gate_triggered false, matched_plate unset and one detected_plates
\* entry per result.
C11_FailedTriggerReportedAsSuccess ==
    \A r \in Threads :
        LET q == reqs[r] IN
        (q.pc = "done" /\ q.fails > 0)
        => /\ q.status = 200
           /\ ~q.gate_triggered
           /\ q.matched_plate = None
           /\ q.detected_plates = Reported(q, Len(q.results))

\* s has at least 6 characters and occurs in t as a run of consecutive characters.
Contained(s, t) ==
    /\ Len(s) >= 6
    /\ \E i \in 1..(Len(t) - Len(s) + 1) : \A j \in 1..Len(s) : t[i + j - 1] = s[j]

\* The number of positions at which d and a carry the same character.
EqualPositions(d, a) ==
    Cardinality({ i \in 1..Len(d) : i <= Len(a) /\ d[i] = a[i] })

\* The length of the longer of d and a.
Longest(d, a) == IF Len(d) >= Len(a) THEN Len(d) ELSE Len(a)

\* The score x is the number n / d.
ScoreIs(x, n, d) == x[1] * d = n * x[2]

\* C12: fuzzy_match returns (True, 100) for equal normalized texts; otherwise
\* (True, 80) when a normalized side of 6 or more characters is contained in the
\* other, whatever the positional similarity; otherwise (True, similarity) for two
\* non-empty texts whose positional similarity is at least 70; otherwise (False, 0).
C12_RulePrecedence ==
    ret # None =>
        LET d   == clean_plate(call.detected)
            a   == clean_plate(call.authorized)
            sub == Contained(d, a) \/ Contained(a, d)
            sim == /\ d # << >>
                   /\ a # << >>
                   /\ EqualPositions(d, a) * 100 >= 70 * Longest(d, a)
        IN  /\ d = a => ret = << TRUE, << 100, 1 >> >>
            /\ (d # a /\ sub) => ret = << TRUE, << 80, 1 >> >>
            /\ (d # a /\ ~sub /\ sim)
                   => ret[1] /\ ScoreIs(ret[2], EqualPositions(d, a) * 100, Longest(d, a))
            /\ (d # a /\ ~sub /\ ~sim) => ret = << FALSE, << 0, 1 >> >>

\* fuzzy_match has returned 80 for a contained text whose positional similarity
\* is above 80.
C12_Witness ==
    /\ ret # None
    /\ ret = << TRUE, << 80, 1 >> >>
    /\ EqualPositions(clean_plate(call.detected), clean_plate(call.authorized)) * 100
           > 80 * Longest(clean_plate(call.detected), clean_plate(call.authorized))

\* fuzzy_match has been called on ("AB12CD1", "AB12XX1") and has returned.
C13_Witness ==
    /\ ret # None
    /\ call = [detected |-> P_AB12CD1, authorized |-> P_AB12XX1]

\* C13 as stated: fuzzy_match("AB12CD1", "AB12XX1") returns a match whose score
\* is the positional similarity of 6 equal positions out of 7 (600 / 7).
C13_SixOfSeven ==
    C13_Witness => ret[1] /\ ScoreIs(ret[2], 600, 7)

\* C13, amended: fuzzy_match("AB12CD1", "AB12XX1") is decided by the positional
\* similarity rule (the texts differ and neither contains the other) and returns
\* a match whose score is the similarity of 5 equal positions out of 7 (500 / 7).
C13_FiveOfSeven ==
    C13_Witness =>
        /\ clean_plate(call.detected) # clean_plate(call.authorized)
        /\ ~Contained(clean_plate(call.detected), clean_plate(call.authorized))
        /\ ~Contained(clean_plate(call.authorized), clean_plate(call.detected))
        /\ ret[1]
        /\ ScoreIs(ret[2], 500, 7)

\* C14: against every entry of the customer's allow-list, a detected text and an
\* entry that both normalize to the empty text match with score 100, and an empty
\* normalized text against a non-empty one gives (False, 0); so is_authorized
\* accepts a detected text that normalizes to empty exactly when some entry of the
\* allow-list normalizes to empty.
C14_EmptyTexts ==
    (ret # None /\ call.customer_id \in DOMAIN customers) =>
        LET plates == customers[call.customer_id].authorized_plates
            d      == clean_plate(call.detected_plate)
        IN  /\ \A k \in 1..Len(plates) :
                   LET a == clean_plate(plates[k])
                       m == fuzzy_match(call.detected_plate, plates[k])
                   IN  /\ (d = << >> /\ a = << >>) => m = << TRUE, << 100, 1 >> >>
                       /\ ((d = << >>) # (a = << >>)) => m = << FALSE, << 0, 1 >> >>
            /\ d = << >> =>
                   (ret[1] <=> \E k \in 1..Len(plates) : clean_plate(plates[k]) = << >>)

\* is_authorized has accepted a detected text that normalizes to empty, on an
\* allow-list whose first entry does not normalize to empty.
C14_Witness ==
    /\ ret # None
    /\ call.customer_id \in DOMAIN customers
    /\ clean_plate(call.detected_plate) = << >>
    /\ ret[1]
    /\ Len(customers[call.customer_id].authorized_plates) = 2
    /\ clean_plate(customers[call.customer_id].authorized_plates[1]) # << >>

\* C15: a step that is not an /add_customer request changes the authorized_plates
\* of no customer (and adds no customer).
C15_DetectionKeepsAllowLists ==
    [][adds' = adds =>
          /\ DOMAIN customers' = DOMAIN customers
          /\ \A c \in DOMAIN customers :
                 customers'[c].authorized_plates = customers[c].authorized_plates]_vars

\* A /detect request has written its customer's record.
C15_Witness ==
    \E r \in Threads : reqs[r].pc = "done" /\ reqs[r].writes > 0

\* Request q makes a trigger attempt in this step: it posts to the hub, or
\* trigger_gate returns to it.
Attempts(q, q_next) ==
    /\ q.pc \in { "scan", "post" }
    /\ \/ q_next.posts # q.posts
       \/ q_next.fails # q.fails
       \/ q_next.writes # q.writes
       \/ q_next.gate_triggered # q.gate_triggered

\* C16: a step in which a request makes a trigger attempt for its customer leaves
\* the record of every other customer, and whether that customer can open its
\* gate, as they were.
C16_CooldownPerCustomer ==
    [][\A r \in Threads :
          Attempts(reqs[r], reqs'[r]) =>
              \A c \in DOMAIN customers \ { reqs[r].customer_id } :
                  /\ customers'[c] = customers[c]
                  /\ can_open_gate(customers', c, now') = can_open_gate(customers, c, now)]_vars

\* A request for customer A has had a response to its trigger attempt while
\* customer B is in the registry.
C16_Witness ==
    /\ "B" \in DOMAIN customers
    /\ \E r \in Threads : reqs[r].customer_id = "A" /\ reqs[r].writes > 0

\* C17: a request for a customer whose record has no webhook_url never posts to
\* the hub, never sets gate_triggered and never writes cooldown_end, and the
\* cooldown_end of such a record stays 0, the value it starts with.
C17_NoWebhookNeverTriggers ==
    /\ \A r \in Threads :
           LET q == reqs[r] IN
           (/\ q.pc # "idle"
            /\ q.customer_id \in DOMAIN customers
            /\ customers[q.customer_id].webhook_url = None)
           => /\ q.posts = 0
              /\ q.writes = 0
              /\ ~q.gate_triggered
              /\ q.matched_plate = None
    /\ \A c \in DOMAIN customers :
           customers[c].webhook_url = None =>
               customers[c].cooldown_end = 0 /\ last_trigger[c] = -1

\* A request with an authorized result for a customer without webhook_url has
\* been answered.
C17_Witness ==
    \E r \in Threads :
        /\ reqs[r].pc = "done"
        /\ reqs[r].status = 200
        /\ reqs[r].customer_id \in DOMAIN customers
        /\ customers[reqs[r].customer_id].webhook_url = None
        /\ reqs[r].fails = 2

\* C18: the text clean_plate returns consists of upper-case letters A-Z and
\* digits 0-9 only, and clean_plate applied to it returns it unchanged.
C18_CleanPlateIdempotent ==
    ret # None =>
        /\ \A i \in 1..Len(ret) :
               \/ ret[i] \in Digits
               \/ \E k \in 1..26 : ret[i] = UpperLetters[k]
        /\ clean_plate(ret) = ret

\* clean_plate has returned a non-empty text from an input with a lower-case
\* letter and a separator in it.
C18_Witness ==
    /\ ret # None
    /\ Len(ret) > 0
    /\ \E i \in 1..Len(call.text) : call.text[i] = "a"
    /\ \E i \in 1..Len(call.text) : call.text[i] \in { "-", " " }

\* C19: fuzzy_match returns the same flag and the same score when its two
\* arguments are exchanged.
C19_FuzzyMatchSymmetric ==
    ret # None => ret = fuzzy_match(call.authorized, call.detected)

\* fuzzy_match has returned for a cleaned authorized text of six characters or
\* more that lies inside a longer cleaned detected text, with 70 percent or
\* more of the positions equal.
C19_Witness ==
    /\ ret # None
    /\ LET d == clean_plate(call.detected)
           a == clean_plate(call.authorized)
       IN  /\ Len(a) >= 6
           /\ Len(d) > Len(a)
           /\ IsSubstring(a, d)
           /\ PositionalMatches(d, a) * 100 >= 70 * Len(d)

\* C20: in a /detect response with the success status, gate_triggered is true
\* exactly when matched_plate is not None, and a matched_plate that is not None
\* is an entry of the customer's authorized_plates, as written in the list, for
\* which a post to the hub in this request was answered with a success code.
C20_MatchedPlateIsTriggeredEntry ==
    \A r \in Threads :
        LET q == reqs[r] IN
        (q.pc = "done" /\ q.status = 200)
        => /\ q.gate_triggered <=> q.matched_plate # None
           /\ q.matched_plate # None =>
                  /\ \E k \in 1..Len(customers[q.customer_id].authorized_plates) :
                         customers[q.customer_id].authorized_plates[k] = q.matched_plate
                  /\ q.posts = q.fails + 1
                  /\ last_trigger[q.customer_id] = q.triggered_at

\* A request has been answered with the gate triggered, and none of the detected
\* texts it reports is written as the matched entry is.
C20_Witness ==
    \E r \in Threads :
        LET q == reqs[r] IN
        /\ q.pc = "done"
        /\ q.status = 200
        /\ q.gate_triggered
        /\ q.matched_plate # None
        /\ Len(q.detected_plates) > 0
        /\ \A i \in 1..Len(q.detected_plates) : q.detected_plates[i].plate # q.matched_plate

====
